---- MODULE Spec2Model ----
(***************************************************************************)
(* Model of the round-based verification engine of superlenz-mcp           *)
(* (src/src/verification/VerificationEngine.ts).                           *)
(*                                                                         *)
(* A verify() call is an async function: it runs synchronously up to each  *)
(* await, and other calls may run in between.  A call is therefore a       *)
(* sequence of atomic steps cut at the awaits of verify() and at the       *)
(* oracle requests of rounds 9 and 10.                                     *)
(*                                                                         *)
(* Numbers are exact rationals <<n, d>> (d > 0, lowest terms); <<0, 0>> is *)
(* NaN.  A three-element tuple <<n, d, "string">> is a JSON string holding *)
(* a number, which JavaScript coerces in comparisons but which has no      *)
(* toFixed method.  Object identity is modelled by indices: a round result *)
(* refers to conflicts by their index in the creating call's conflict      *)
(* list, and `this.verificationHistory` refers to an array by its index    *)
(* in `arrays`.                                                            *)
(***************************************************************************)
EXTENDS Integers, Sequences, FiniteSets, TLC

\* ------------------------------------------------------------------------
\* Bounds of the model
\* ------------------------------------------------------------------------
MaxClaims == 2

MaxSources == 5

MaxAssessments == 1

\* results handed to the resolver's getStatistics: at most MaxResults
MaxResults == 3

\* claims handed to round 5 on its own: at most MaxTemporalClaims
MaxTemporalClaims == 3

\* ------------------------------------------------------------------------
\* Numbers
\* ------------------------------------------------------------------------
RECURSIVE GCD(_, _)
GCD(a, b) == IF b = 0 THEN a ELSE GCD(b, a % b)

Abs(x) == IF x < 0 THEN -x ELSE x

NaN == <<0, 0>>

IsNaN(x) == x[2] = 0

Rat(n, d) ==
    LET g == GCD(Abs(n), Abs(d))
        s == IF d < 0 THEN -1 ELSE 1
    IN  IF d = 0 THEN NaN ELSE <<s * (n \div g), s * (d \div g)>>

Zero == <<0, 1>>

One == <<1, 1>>

RAdd(x, y) ==
    IF IsNaN(x) \/ IsNaN(y) THEN NaN
    ELSE LET g == GCD(x[2], y[2])
         IN  Rat(x[1] * (y[2] \div g) + y[1] * (x[2] \div g), (x[2] \div g) * y[2])

RMul(x, y) ==
    IF IsNaN(x) \/ IsNaN(y) THEN NaN
    ELSE LET g1 == GCD(Abs(x[1]), y[2])
             g2 == GCD(Abs(y[1]), x[2])
             h1 == IF g1 = 0 THEN 1 ELSE g1
             h2 == IF g2 = 0 THEN 1 ELSE g2
         IN  Rat((x[1] \div h1) * (y[1] \div h2), (x[2] \div h2) * (y[2] \div h1))

\* x / k for a positive integer k
RDivInt(x, k) == RMul(x, <<1, k>>)

\* comparisons are false as soon as one side is NaN
RGeq(x, y) == ~IsNaN(x) /\ ~IsNaN(y) /\ x[1] * y[2] >= y[1] * x[2]

RGt(x, y) == ~IsNaN(x) /\ ~IsNaN(y) /\ x[1] * y[2] > y[1] * x[2]

RLt(x, y) == RGt(y, x)

\* Math.min(1, x) and Math.max(0, x); both yield NaN on NaN
Min1(x) == IF IsNaN(x) THEN NaN ELSE IF RGt(x, One) THEN One ELSE x

Max0(x) == IF IsNaN(x) THEN NaN ELSE IF RLt(x, Zero) THEN Zero ELSE x

\* the sequence f with its elements evaluated once
AsSeq(f) == f \o <<>>

RECURSIVE RSum(_)
RSum(s) == IF s = <<>> THEN Zero ELSE RAdd(Head(s), RSum(Tail(s)))

\* ------------------------------------------------------------------------
\* Texts: a text is a sequence of words; the tables below give, for the
\* words of the vocabulary, what the regular expressions of the code see.
\* ------------------------------------------------------------------------
Lower(w) ==
    CASE w = "Solar" -> "solar"
      [] w = "Total" -> "total"
      [] OTHER -> w

\* words of at most two characters
ShortWords == {"in"}

\* words matching /20\d{2}/
YearWords == {"2023", "2024"}

\* words matching /\d+(?:,\d{3})*(?:\.\d+)?/ and their parseFloat value
NumericValue(w) ==
    CASE w = "2023" -> 2023
      [] w = "2024" -> 2024
      [] w = "100" -> 100
      [] OTHER -> -1

IsNumericWord(w) == NumericValue(w) >= 0

scopeKeywords == {"only", "including", "excluding", "total", "average"}

\* ------------------------------------------------------------------------
\* Inputs: claims and sources
\* ------------------------------------------------------------------------
\* Claim texts offered to the engine (Claim.text, src/src/core/types.ts).
ClaimTexts ==
    { <<"Solar", "power", "grows">>,
      <<"in", "2024", "average", "100">>,
      <<"Total", "solar", "power", "2023">> }

\* The source ids a claim with the given text was extracted from.
ExtractedFrom(text) == IF "2023" \in {text[i] : i \in DOMAIN text} THEN {2} ELSE {1}

\* Claim ids are unique (they are nanoid() values); the id is the position.
MkClaim(i, text) ==
    [id |-> i, text |-> text, extractedFrom |-> ExtractedFrom(text),
     verificationStatus |-> "pending"]

ClaimLists ==
    UNION { { [i \in 1..n |-> MkClaim(i, f[i])] : f \in [1..n -> ClaimTexts] }
            : n \in 0..MaxClaims }

\* Two kinds of source: one whose title matches the solar claims, one that
\* matches nothing.  A source id is the position in the list.
SourceKinds ==
    { [title |-> <<"Solar", "power", "grows">>, credibilityScore |-> <<9, 10>>],
      [title |-> <<"Test", "Source">>, credibilityScore |-> <<7, 10>>] }

MkSource(i, k) ==
    [id |-> i, title |-> k.title, credibilityScore |-> k.credibilityScore]

\* Source lists: the two kinds alternating, the matching kind first.
SourceCatalog ==
    [i \in 1..MaxSources |->
       MkSource(i, CHOOSE k \in SourceKinds :
                      (k.title[1] = "Solar") <=> (i % 2 = 1))]

SourceLists == { SubSeq(SourceCatalog, 1, n) : n \in 0..MaxSources }

\* ------------------------------------------------------------------------
\* Helpers of the engine
\* ------------------------------------------------------------------------
tokenize(text) == { Lower(text[i]) : i \in DOMAIN text } \ ShortWords

computeKeywordOverlap(textA, textB) ==
    LET wordsA == tokenize(textA)
        wordsB == tokenize(textB)
    IN  IF wordsA = {} \/ wordsB = {} THEN Zero
        ELSE Rat(Cardinality(wordsA \cap wordsB), Cardinality(wordsA \cup wordsB))

averageHistoryConfidence(hist) ==
    IF Len(hist) = 0 THEN <<1, 2>>
    ELSE RDivInt(RSum(AsSeq([i \in 1..Len(hist) |-> hist[i].averageConfidence])),
                 Len(hist))

\* text.match(/20\d{2}/g): the year words in order, <<>> standing for null
YearMatches(text) == SelectSeq(text, LAMBDA w : w \in YearWords)

\* variant: any year of one text that differs from a year of the other counts
hasTemporalConflictAnyYear(claim1, claim2) ==
    LET years1 == YearMatches(claim1.text)
        years2 == YearMatches(claim2.text)
    IN  \E m \in DOMAIN years1 : \E n \in DOMAIN years2 : years1[m] # years2[n]

hasTemporalConflict(claim1, claim2) ==
    LET years1 == YearMatches(claim1.text)
        years2 == YearMatches(claim2.text)
    IN  years1 # <<>> /\ years2 # <<>> /\ years1[1] # years2[1]

HasScopeKeyword(text) == \E i \in DOMAIN text : Lower(text[i]) \in scopeKeywords

hasScopeConflict(claim1, claim2) ==
    HasScopeKeyword(claim1.text) /\ HasScopeKeyword(claim2.text)

isNumericalClaim(claim) == \E i \in DOMAIN claim.text : IsNumericWord(claim.text[i])

extractNumericalValues(claim) ==
    LET nums == SelectSeq(claim.text, IsNumericWord)
    IN  [i \in 1..Len(nums) |-> NumericValue(nums[i])]

RECURSIVE IntSum(_)
IntSum(s) == IF s = <<>> THEN 0 ELSE Head(s) + IntSum(Tail(s))

\* calculateCV(values) > 0.5.  The values are non-negative, so with
\* n = values.length, S their sum and Q the sum of their squares,
\* stdDev / mean > 0.5 is 4 * (n*Q - S*S) > S*S (and false when mean = 0).
CVAboveHalf(values) ==
    LET n == Len(values)
        S == IntSum(values)
        Q == IntSum([i \in 1..n |-> values[i] * values[i]])
    IN  n > 0 /\ S # 0 /\ 4 * (n * Q - S * S) > S * S

RDiv(x, y) == IF IsNaN(x) \/ IsNaN(y) THEN NaN ELSE RMul(x, Rat(y[2], y[1]))

Min(a, b) == IF a < b THEN a ELSE b

\* the pairs <<i, j>>, 1 <= i < j <= n, in the order of the nested loops
PairSeq(n) ==
    SelectSeq([k \in 1..(n * n) |-> <<((k - 1) \div n) + 1, ((k - 1) % n) + 1>>],
              LAMBDA p : p[1] < p[2])

\* context.sources.filter(s => ids.includes(s.id)), as source ids
SourcesWithIds(context, ids) ==
    LET hit == SelectSeq(context.sources, LAMBDA s : s.id \in ids)
    IN  [i \in 1..Len(hit) |-> hit[i].id]

SourceIds(sources) == [i \in 1..Len(sources) |-> sources[i].id]

\* ------------------------------------------------------------------------
\* Rounds 1-4
\* ------------------------------------------------------------------------
\* The sources of the round that support the claim (overlap > 0.15).
MatchingSources(claim, sourcesForRound) ==
    SelectSeq(sourcesForRound,
              LAMBDA s : RGt(computeKeywordOverlap(claim.text, s.title), <<3, 20>>))

\* roundConfidence of one claim, before the cap at 1
RoundConfidence(claim, sourcesForRound) ==
    LET m == MatchingSources(claim, sourcesForRound)
        matchCount == Len(m)
        weightedScore ==
            RSum(AsSeq([j \in 1..matchCount |->
                          RMul(computeKeywordOverlap(claim.text, m[j].title),
                               m[j].credibilityScore)]))
        sourceRatio == Rat(matchCount, Len(sourcesForRound))
    IN  IF Len(sourcesForRound) > 0
        THEN RAdd(RMul(sourceRatio, <<1, 2>>),
                  RMul(RDivInt(weightedScore, IF matchCount > 1 THEN matchCount ELSE 1),
                       <<1, 2>>))
        ELSE <<3, 10>>

\* data.supportingSources after the round: the new matches are pushed once
AddSupporting(supporting, m) ==
    supporting \o
    SelectSeq(SourceIds(m), LAMBDA id : \A k \in DOMAIN supporting : supporting[k] # id)

\* executeRound: returns the updated claim tracking and the round result
executeRound(round, context, claimVerifications) ==
    LET sourcesForRound ==
            SubSeq(context.sources, 1, Min(Len(context.sources), round * 3))
        n == Len(context.claims)
        conf == AsSeq([i \in 1..n |->
                         RoundConfidence(context.claims[i], sourcesForRound)])
        averageConfidence == IF n > 0 THEN RDivInt(RSum(conf), n) ELSE <<1, 2>>
    IN  [cv |-> [i \in 1..n |->
                   [claimVerifications[i] EXCEPT
                      !.supportingSources =
                          AddSupporting(@, MatchingSources(context.claims[i],
                                                           sourcesForRound)),
                      !.roundResults = Append(@, Min1(conf[i]))]],
         result |-> [round |-> round, by |-> context.sessionId,
                     claimsVerified |-> n, conflictsFound |-> 0,
                     averageConfidence |-> Min1(averageConfidence),
                     sources |-> SourceIds(sourcesForRound),
                     conflicts |-> <<>>]]

\* ------------------------------------------------------------------------
\* Rounds 5-7: conflict detection.  Each returns the new Conflict objects;
\* the caller stores them and the round result refers to them.
\* ------------------------------------------------------------------------
TemporalConflicts(context) ==
    LET ps == SelectSeq(PairSeq(Len(context.claims)),
                        LAMBDA p : hasTemporalConflict(context.claims[p[1]],
                                                       context.claims[p[2]]))
    IN  [k \in 1..Len(ps) |->
           [type |-> "TEMPORAL_DIFFERENCE", claims |-> ps[k],
            sources |-> SourcesWithIds(context,
                            context.claims[ps[k][1]].extractedFrom \cup
                            context.claims[ps[k][2]].extractedFrom),
            resolved |-> FALSE, resolution |-> "undefined", confidence |-> <<4, 5>>]]

StatisticalConflicts(context) ==
    LET idx == SelectSeq([i \in 1..Len(context.claims) |-> i],
                         LAMBDA i : /\ isNumericalClaim(context.claims[i])
                                    /\ Len(extractNumericalValues(context.claims[i])) >= 2
                                    /\ CVAboveHalf(extractNumericalValues(context.claims[i])))
    IN  [k \in 1..Len(idx) |->
           [type |-> "STATISTICAL_METHOD", claims |-> <<idx[k]>>,
            sources |-> SourcesWithIds(context, context.claims[idx[k]].extractedFrom),
            resolved |-> FALSE, resolution |-> "undefined", confidence |-> <<7, 10>>]]

ScopeConflicts(context) ==
    LET ps == SelectSeq(PairSeq(Len(context.claims)),
                        LAMBDA p : hasScopeConflict(context.claims[p[1]],
                                                    context.claims[p[2]]))
    IN  [k \in 1..Len(ps) |->
           [type |-> "SCOPE_DIFFERENCE", claims |-> ps[k],
            sources |-> SourcesWithIds(context,
                            context.claims[ps[k][1]].extractedFrom \cup
                            context.claims[ps[k][2]].extractedFrom),
            resolved |-> FALSE, resolution |-> "undefined", confidence |-> <<17, 20>>]]

\* The result of a detection round.  `first` is the index the first new
\* conflict gets in the call's conflict objects; bonus is 0.02 or 0.01.
DetectionResult(round, context, hist, first, count, bonus) ==
    [round |-> round, by |-> context.sessionId,
     claimsVerified |-> Len(context.claims), conflictsFound |-> count,
     averageConfidence |-> Min1(RAdd(averageHistoryConfidence(hist), bonus)),
     sources |-> SourceIds(context.sources),
     conflicts |-> [k \in 1..count |-> first + k - 1]]

\* ------------------------------------------------------------------------
\* Round 8: conflict resolution, in place on the Conflict objects
\* ------------------------------------------------------------------------
RECURSIVE RMaxOf(_)
RMaxOf(s) ==
    IF Len(s) = 1 THEN s[1]
    ELSE LET m == RMaxOf(Tail(s)) IN IF RGt(s[1], m) THEN s[1] ELSE m

RECURSIVE RMinOf(_)
RMinOf(s) ==
    IF Len(s) = 1 THEN s[1]
    ELSE LET m == RMinOf(Tail(s)) IN IF RLt(s[1], m) THEN s[1] ELSE m

\* Credibility scores are IEEE-754 doubles.  For scores a/100 and b/100 the
\* double a/100 - b/100 compares with the double 0.2 as a - b compares with
\* 20, except for the pairs below (a - b = 20), where the rounded difference
\* is 0.20000000000000007: 0.8 - 0.6 > 0.2 is true, 0.5 - 0.3 > 0.2 is false.
RoundedAboveOneFifth ==
    { <<55, 35>>, <<56, 36>>, <<67, 47>>, <<68, 48>>, <<77, 57>>, <<78, 58>>,
      <<79, 59>>, <<80, 60>>, <<81, 61>>, <<89, 69>>, <<90, 70>>, <<91, 71>>,
      <<92, 72>>, <<93, 73>> }

\* the score as a number of hundredths, -1 when it is not one
Hundredths(x) == IF x[2] # 0 /\ 100 % x[2] = 0 THEN x[1] * (100 \div x[2]) ELSE -1

\* maxCredibility - minCredibility > 0.2
DiffAboveOneFifth(maxCredibility, minCredibility) ==
    \/ RGt(RAdd(maxCredibility, RMul(<<-1, 1>>, minCredibility)), <<1, 5>>)
    \/ <<Hundredths(maxCredibility), Hundredths(minCredibility)>>
           \in RoundedAboveOneFifth

\* Math.max(...credibilities) - Math.min(...credibilities) > 0.2; with no
\* sources the difference is -Infinity - Infinity
SpreadAbove(credibilities) ==
    /\ Len(credibilities) > 0
    /\ DiffAboveOneFifth(RMaxOf(credibilities), RMinOf(credibilities))

\* credibilityDiff > 0.2 over the sources of a conflict of the engine
CredibilityDiffAbove(context, sourceIds) ==
    SpreadAbove([k \in 1..Len(sourceIds) |->
                   context.sources[sourceIds[k]].credibilityScore])

\* one iteration of the switch of executeConflictResolution
ResolveConflict(context, conflict) ==
    CASE conflict.type = "SCOPE_DIFFERENCE" ->
           [conflict EXCEPT !.resolved = TRUE,
                            !.resolution = "Both values are correct for different scopes"]
      [] conflict.type = "TEMPORAL_DIFFERENCE" ->
           [conflict EXCEPT !.resolved = TRUE,
                            !.resolution = "Use most recent data with year context"]
      [] conflict.type = "STATISTICAL_METHOD" ->
           [conflict EXCEPT !.resolved = TRUE,
                            !.resolution = "Present multiple statistical measures"]
      [] conflict.type = "MEASUREMENT_UNIT" ->
           [conflict EXCEPT !.resolved = TRUE,
                            !.resolution = "Standardize units and note measurement basis"]
      [] conflict.type = "TRUE_CONTRADICTION" ->
           IF CredibilityDiffAbove(context, conflict.sources)
           THEN [conflict EXCEPT !.resolved = TRUE,
                                 !.resolution = "Trust higher credibility source"]
           ELSE [conflict EXCEPT !.resolved = FALSE,
                                 !.resolution = "Multiple valid perspectives - present both"]
      [] OTHER -> conflict

\* variant: the round-8 result reports no conflicts
executeConflictResolutionUncounted(conflicts, context, objs, hist) ==
    [objs |-> [k \in 1..Len(objs) |->
                 IF \E i \in DOMAIN conflicts : conflicts[i] = k
                 THEN ResolveConflict(context, objs[k]) ELSE objs[k]],
     result |-> [round |-> 8, by |-> context.sessionId,
                 claimsVerified |-> Len(context.claims),
                 conflictsFound |-> 0,
                 averageConfidence |->
                     Min1(RAdd(averageHistoryConfidence(hist), <<1, 50>>)),
                 sources |-> SourceIds(context.sources),
                 conflicts |-> conflicts]]

\* executeConflictResolution: `conflicts` are the indices (allConflicts) of
\* the objects to resolve; returns the objects after the loop and the result,
\* whose conflicts field is the allConflicts list itself.
executeConflictResolution(conflicts, context, objs, hist) ==
    [objs |-> [k \in 1..Len(objs) |->
                 IF \E i \in DOMAIN conflicts : conflicts[i] = k
                 THEN ResolveConflict(context, objs[k]) ELSE objs[k]],
     result |-> [round |-> 8, by |-> context.sessionId,
                 claimsVerified |-> Len(context.claims),
                 conflictsFound |-> Len(conflicts),
                 averageConfidence |->
                     Min1(RAdd(averageHistoryConfidence(hist), <<1, 50>>)),
                 sources |-> SourceIds(context.sources),
                 conflicts |-> conflicts]]

\* ------------------------------------------------------------------------
\* ConflictResolver (src/src/verification/CredibilityCalculator.ts)
\* ------------------------------------------------------------------------
\* A call returns a value or throws.
Return(v) == [threw |-> FALSE, value |-> v]

Throw(e) == [threw |-> TRUE, error |-> e]

ConflictTypes ==
    {"SCOPE_DIFFERENCE", "TEMPORAL_DIFFERENCE", "STATISTICAL_METHOD",
     "MEASUREMENT_UNIT", "TRUE_CONTRADICTION"}

\* the keyword lists of detectConflictType
detectScopeKeywords ==
    {"only", "including", "excluding", "total", "average", "ceremony", "honeymoon"}

statKeywords == {"average", "mean", "median", "mode", "percentile"}

measureKeywords == {"ranked", "rating", "score", "performance", "quality", "speed"}

\* words that hold a keyword as a proper substring
ProperSubstrings == { <<"model", "mode">> }

\* c.text.toLowerCase().includes(kw) for some kw of the list
IncludesAny(text, keywords) ==
    \E i \in DOMAIN text :
        \/ Lower(text[i]) \in keywords
        \/ \E kw \in keywords : <<Lower(text[i]), kw>> \in ProperSubstrings

\* variant: the match holds the last year of the text
LastYearMatch(text) ==
    LET all == YearMatches(text) IN IF all = <<>> THEN <<>> ELSE <<all[Len(all)]>>

\* c.text.match(/20\d{2}/): the regular expression has no g flag, so the
\* match holds the first year of the text only; <<>> stands for null
FirstYearMatch(text) ==
    LET all == YearMatches(text) IN IF all = <<>> THEN <<>> ELSE <<all[1]>>

\* variant: the years are looked at before the scope keywords
detectConflictTypeYearsFirst(claims) ==
    LET years == SelectSeq([i \in 1..Len(claims) |-> FirstYearMatch(claims[i].text)],
                           LAMBDA m : m # <<>>)
    IN  IF Len(claims) < 2 THEN "TRUE_CONTRADICTION"
        ELSE IF Len(years) >= 2
                /\ Cardinality({ years[k][1] : k \in DOMAIN years }) > 1
             THEN "TEMPORAL_DIFFERENCE"
        ELSE IF \E i \in DOMAIN claims :
                   IncludesAny(claims[i].text, detectScopeKeywords)
             THEN "SCOPE_DIFFERENCE"
        ELSE IF \E i \in DOMAIN claims : IncludesAny(claims[i].text, statKeywords)
             THEN "STATISTICAL_METHOD"
        ELSE IF \E i \in DOMAIN claims : IncludesAny(claims[i].text, measureKeywords)
             THEN "MEASUREMENT_UNIT"
        ELSE "TRUE_CONTRADICTION"

\* detectConflictType: the first check that matches decides
detectConflictType(claims) ==
    LET years == SelectSeq([i \in 1..Len(claims) |-> FirstYearMatch(claims[i].text)],
                           LAMBDA m : m # <<>>)
    IN  IF Len(claims) < 2 THEN "TRUE_CONTRADICTION"
        ELSE IF \E i \in DOMAIN claims :
                   IncludesAny(claims[i].text, detectScopeKeywords)
             THEN "SCOPE_DIFFERENCE"
        ELSE IF Len(years) >= 2
                /\ Cardinality({ years[k][1] : k \in DOMAIN years }) > 1
             THEN "TEMPORAL_DIFFERENCE"
        ELSE IF \E i \in DOMAIN claims : IncludesAny(claims[i].text, statKeywords)
             THEN "STATISTICAL_METHOD"
        ELSE IF \E i \in DOMAIN claims : IncludesAny(claims[i].text, measureKeywords)
             THEN "MEASUREMENT_UNIT"
        ELSE "TRUE_CONTRADICTION"

\* A ResolutionResult; the resolution text is kept by its first line.
ResolutionResult(conflict, resolved, resolution, strategy, confidence) ==
    [conflict |-> [conflict EXCEPT !.resolved = resolved, !.resolution = resolution],
     strategy |-> strategy, resolved |-> resolved, resolution |-> resolution,
     confidence |-> confidence]

resolveScopeDifference(conflict) ==
    Return(ResolutionResult(conflict, TRUE,
               "Both values are accurate for different scopes:",
               "Clarify scope and present all values with context", <<9, 10>>))

\* temporalClaims[0] is undefined when the conflict has no claims, and
\* reading mostRecent.year then throws a TypeError
resolveTemporalDifference(conflict) ==
    IF Len(conflict.claims) = 0 THEN Throw("TypeError")
    ELSE Return(ResolutionResult(conflict, TRUE,
                    "Using most recent data",
                    "Use most recent data with time-series context", <<17, 20>>))

resolveStatisticalMethod(conflict) ==
    Return(ResolutionResult(conflict, TRUE,
               "Multiple statistical measures available:",
               "Present all statistical measures with methodology notes", <<22, 25>>))

resolveMeasurementUnit(conflict) ==
    Return(ResolutionResult(conflict, TRUE,
               "Rankings vary by measurement criteria:",
               "Clarify measurement basis and present all with context", <<87, 100>>))

resolveTrueContradiction(conflict) ==
    LET credibilities ==
            [k \in 1..Len(conflict.sources) |-> conflict.sources[k].credibilityScore]
    IN  IF SpreadAbove(credibilities)
        THEN Return(ResolutionResult(conflict, TRUE,
                        "Based on source credibility analysis:",
                        "Trust higher credibility source with alternatives noted",
                        <<7, 10>>))
        ELSE Return(ResolutionResult(conflict, TRUE,
                        "Multiple valid perspectives found:",
                        "Present multiple perspectives with equal weight",
                        <<13, 20>>))

resolveDefault(conflict) ==
    Return(ResolutionResult(conflict, FALSE,
               "Conflict detected but type unknown. Manual review recommended.",
               "Manual review required", <<1, 2>>))

resolve(conflict) ==
    CASE conflict.type = "SCOPE_DIFFERENCE" -> resolveScopeDifference(conflict)
      [] conflict.type = "TEMPORAL_DIFFERENCE" -> resolveTemporalDifference(conflict)
      [] conflict.type = "STATISTICAL_METHOD" -> resolveStatisticalMethod(conflict)
      [] conflict.type = "MEASUREMENT_UNIT" -> resolveMeasurementUnit(conflict)
      [] conflict.type = "TRUE_CONTRADICTION" -> resolveTrueContradiction(conflict)
      [] OTHER -> resolveDefault(conflict)

\* conflicts.map(conflict => this.resolve(conflict)): the first call that
\* throws ends the map
RECURSIVE resolveMultiple(_)
resolveMultiple(conflicts) ==
    IF conflicts = <<>> THEN Return(<<>>)
    ELSE LET first == resolve(Head(conflicts))
         IN  IF first.threw THEN first
             ELSE LET rest == resolveMultiple(Tail(conflicts))
                  IN  IF rest.threw THEN rest
                      ELSE Return(<<first.value>> \o rest.value)

\* the loop of getStatistics over the results: byType maps the types seen
\* so far to their counters
RECURSIVE CountByType(_, _)
CountByType(results, byType) ==
    IF results = <<>> THEN byType
    ELSE LET result == Head(results)
             type == result.conflict.type
             entry == IF type \in DOMAIN byType THEN byType[type]
                      ELSE [count |-> 0, resolved |-> 0]
             counted == [count |-> entry.count + 1,
                         resolved |-> IF result.resolved THEN entry.resolved + 1
                                      ELSE entry.resolved]
         IN  CountByType(Tail(results),
                         [t \in DOMAIN byType \cup {type} |->
                            IF t = type THEN counted ELSE byType[t]])

\* variant: every result is counted as resolved in its type's entry
ConflictResolver_getStatisticsAllResolved(results) ==
    [total |-> Len(results),
     resolved |-> Len(SelectSeq(results, LAMBDA r : r.resolved)),
     byType |-> LET byType == CountByType(results, <<>>)
                IN  [t \in DOMAIN byType |->
                       [count |-> byType[t].count, resolved |-> byType[t].count]],
     averageConfidence |->
         IF Len(results) > 0
         THEN RDivInt(RSum([i \in 1..Len(results) |-> results[i].confidence]),
                      Len(results))
         ELSE Zero]

\* ConflictResolver.getStatistics(results)
ConflictResolver_getStatistics(results) ==
    [total |-> Len(results),
     resolved |-> Len(SelectSeq(results, LAMBDA r : r.resolved)),
     byType |-> CountByType(results, <<>>),
     averageConfidence |->
         IF Len(results) > 0
         THEN RDivInt(RSum([i \in 1..Len(results) |-> results[i].confidence]),
                      Len(results))
         ELSE Zero]

\* A conflict as the resolver receives it: the claims and the sources are
\* the objects themselves, where the engine's records hold their positions.
ConflictObject(context, conflict) ==
    [conflict EXCEPT
       !.claims = [i \in 1..Len(conflict.claims) |-> context.claims[conflict.claims[i]]],
       !.sources = [k \in 1..Len(conflict.sources) |->
                      context.sources[conflict.sources[k]]]]

\* ------------------------------------------------------------------------
\* Round 9: expert verification
\* ------------------------------------------------------------------------
\* JSON values of the oracle's answers: a number, a string holding a number,
\* null, or an absent field (undefined).
JNum(r) == [k |-> "number", v |-> r]

JStr(r) == [k |-> "string", v |-> r]

JNull == [k |-> "null", v |-> Zero]

JUndefined == [k |-> "undefined", v |-> NaN]

\* ToNumber(value), as Math.max and the comparison operators apply it
ToNumber(j) ==
    CASE j.k = "number" -> j.v
      [] j.k = "string" -> j.v
      [] j.k = "null" -> Zero
      [] OTHER -> NaN

\* the algorithmic fallback of round 9, for every tracked claim
ExpertFallback(context, claimVerifications) ==
    [i \in 1..Len(claimVerifications) |->
       [claimVerifications[i] EXCEPT
          !.roundResults =
              Append(@, Min1(RAdd(RMul(IF Len(context.sources) > 0
                                       THEN Rat(Len(claimVerifications[i].supportingSources),
                                                Len(context.sources))
                                       ELSE Zero,
                                       <<6, 5>>),
                                  <<3, 10>>)))]]

\* variant: every assessment in range is pushed onto every claim's history
RECURSIVE ApplyAssessmentsToAll(_, _, _)
ApplyAssessmentsToAll(assessments, context, claimVerifications) ==
    IF assessments = <<>> THEN claimVerifications
    ELSE LET a == Head(assessments)
             idx == a.claimIndex - 1
         IN  IF a.kind = "null" THEN claimVerifications
             ELSE ApplyAssessmentsToAll(Tail(assessments), context,
                    IF idx >= 0 /\ idx < Len(context.claims)
                    THEN [i \in 1..Len(claimVerifications) |->
                            [claimVerifications[i] EXCEPT
                               !.roundResults =
                                   Append(@, Min1(Max0(ToNumber(a.confidence))))]]
                    ELSE claimVerifications)

\* the loop over the parsed assessments; an element that is not an object
\* (kind "null") throws, which ends the loop with the entries pushed so far
RECURSIVE ApplyAssessments(_, _, _)
ApplyAssessments(assessments, context, claimVerifications) ==
    IF assessments = <<>> THEN claimVerifications
    ELSE LET a == Head(assessments)
             idx == a.claimIndex - 1
         IN  IF a.kind = "null" THEN claimVerifications
             ELSE ApplyAssessments(Tail(assessments), context,
                    IF idx >= 0 /\ idx < Len(context.claims)
                    THEN [claimVerifications EXCEPT
                            ![idx + 1].roundResults =
                                Append(@, Min1(Max0(ToNumber(a.confidence))))]
                    ELSE claimVerifications)

ExpertResult(context, hist, bonus) ==
    [round |-> 9, by |-> context.sessionId,
     claimsVerified |-> Len(context.claims), conflictsFound |-> 0,
     averageConfidence |-> Min1(RAdd(averageHistoryConfidence(hist), bonus)),
     sources |-> SourceIds(context.sources),
     conflicts |-> <<>>]

\* executeExpertVerification without an API key
executeExpertVerificationNoKey(context, claimVerifications, hist) ==
    [cv |-> ExpertFallback(context, claimVerifications),
     result |-> ExpertResult(context, hist, <<1, 100>>)]

\* executeExpertVerification once the oracle request has settled with
\* `response`: "reject" (the request or the reading of its content threw),
\* "unparseable" (no [...] in the text, or JSON.parse threw) or "array"
\* (a parsed array of assessments)
executeExpertVerificationSettled(response, context, claimVerifications, hist) ==
    CASE response.kind = "reject" ->
           [cv |-> ExpertFallback(context, claimVerifications),
            result |-> ExpertResult(context, hist, <<1, 100>>)]
      [] response.kind = "array" ->
           [cv |-> ApplyAssessments(response.assessments, context, claimVerifications),
            result |-> ExpertResult(context, hist, <<3, 100>>)]
      [] OTHER ->
           [cv |-> claimVerifications,
            result |-> ExpertResult(context, hist, <<3, 100>>)]

\* ------------------------------------------------------------------------
\* Round 10: final consensus
\* ------------------------------------------------------------------------
\* weightedSum / weightTotal with weight 1 + i * 0.5 for the i-th entry
\* (i from 0); roundResults is not empty
WeightedAverage(roundResults) ==
    LET n == Len(roundResults)
        weight == AsSeq([i \in 1..n |-> Rat(i + 1, 2)])
    IN  RDiv(RSum(AsSeq([i \in 1..n |-> RMul(roundResults[i], weight[i])])),
             RSum(weight))

\* the algorithmic consensus over the claims that have a history
AlgorithmicConsensus(claimVerifications) ==
    LET withHistory == SelectSeq(claimVerifications, LAMBDA d : Len(d.roundResults) > 0)
        count == Len(withHistory)
    IN  IF count > 0
        THEN RDivInt(RSum(AsSeq([i \in 1..count |->
                                    WeightedAverage(withHistory[i].roundResults)])),
                     count)
        ELSE <<1, 2>>

ConsensusResult(context, averageConfidence) ==
    [round |-> 10, by |-> context.sessionId,
     claimsVerified |-> Len(context.claims), conflictsFound |-> 0,
     averageConfidence |-> averageConfidence,
     sources |-> SourceIds(context.sources),
     conflicts |-> <<>>]

\* llmConfidence !== null && llmConfidence >= 0 && llmConfidence <= 1
LlmConfidenceAccepted(j) ==
    /\ j.k # "null"
    /\ RGeq(ToNumber(j), Zero)
    /\ RGeq(One, ToNumber(j))

\* the value stored as averageConfidence: the parsed value itself, so a
\* JSON string stays a string
StoredConfidence(j) == IF j.k = "string" THEN <<j.v[1], j.v[2], "string">> ELSE j.v

executeFinalConsensusNoKey(context, claimVerifications) ==
    ConsensusResult(context, Min1(AlgorithmicConsensus(claimVerifications)))

\* executeFinalConsensus once the oracle request has settled: "reject",
\* "nomatch" (no {...} in the text), "badjson", or "object" with the value
\* of its overallConfidence field
executeFinalConsensusSettled(response, context, claimVerifications) ==
    IF response.kind = "object" /\ LlmConfidenceAccepted(response.overallConfidence)
    THEN ConsensusResult(context, StoredConfidence(response.overallConfidence))
    ELSE ConsensusResult(context, Min1(AlgorithmicConsensus(claimVerifications)))

\* typeof averageConfidence === 'number': only numbers have toFixed
HasToFixed(x) == Len(x) = 2

\* ------------------------------------------------------------------------
\* Early exit, final assembly
\* ------------------------------------------------------------------------
\* variant: the length of the history is not compared with minRounds
checkEarlyExitConditionsAnyLength(hist, config) ==
    LET latestResult == hist[Len(hist)]
    IN  /\ RGeq(latestResult.averageConfidence, config.minConfidence)
        /\ Len(latestResult.sources) >= config.minSources

checkEarlyExitConditions(hist, config) ==
    IF Len(hist) < config.minRounds THEN FALSE
    ELSE LET latestResult == hist[Len(hist)]
         IN  /\ RGeq(latestResult.averageConfidence, config.minConfidence)
             /\ Len(latestResult.sources) >= config.minSources

\* the status of a claim with the given final confidence
StatusOf(finalConfidence) ==
    IF RGeq(finalConfidence, <<4, 5>>) THEN "verified"
    ELSE IF RGeq(finalConfidence, <<1, 2>>) THEN "disputed"
    ELSE "false"

FinalConfidenceOf(roundResults) ==
    IF Len(roundResults) > 0 THEN WeightedAverage(roundResults) ELSE <<1, 2>>

\* variant: the number of rounds of the protocol is written into each claim
buildVerifiedClaimsTenRounds(context, claimVerifications, hist) ==
    [i \in 1..Len(claimVerifications) |->
       LET data == claimVerifications[i]
           finalConfidence == FinalConfidenceOf(data.roundResults)
       IN  [id |-> context.claims[i].id,
            text |-> context.claims[i].text,
            extractedFrom |-> context.claims[i].extractedFrom,
            verificationStatus |-> StatusOf(finalConfidence),
            verificationRounds |-> 10,
            supportingSources |-> data.supportingSources,
            contradictingSources |-> data.contradictingSources,
            finalConfidence |-> Min1(finalConfidence)]]

\* buildVerifiedClaims: one new record per tracked claim
buildVerifiedClaims(context, claimVerifications, hist) ==
    [i \in 1..Len(claimVerifications) |->
       LET data == claimVerifications[i]
           finalConfidence == FinalConfidenceOf(data.roundResults)
       IN  [id |-> context.claims[i].id,
            text |-> context.claims[i].text,
            extractedFrom |-> context.claims[i].extractedFrom,
            verificationStatus |-> StatusOf(finalConfidence),
            verificationRounds |-> Len(hist),
            supportingSources |-> data.supportingSources,
            contradictingSources |-> data.contradictingSources,
            finalConfidence |-> Min1(finalConfidence)]]

calculateFinalConfidence(verifiedClaims) ==
    IF Len(verifiedClaims) = 0 THEN Zero
    ELSE RDivInt(RSum(AsSeq([i \in 1..Len(verifiedClaims) |->
                                verifiedClaims[i].finalConfidence])),
                 Len(verifiedClaims))

\* variant: the status is written into the input Claim objects
ClaimsAfterBuildInPlace(claims, verifiedClaims) ==
    [i \in 1..Len(claims) |->
       [claims[i] EXCEPT !.verificationStatus = verifiedClaims[i].verificationStatus]]

\* What buildVerifiedClaims leaves in the input Claim objects: it spreads
\* each claim into a new object, so the inputs keep their fields.
ClaimsAfterBuild(claims, verifiedClaims) == claims

\* ------------------------------------------------------------------------
\* Configuration and oracle answers
\* ------------------------------------------------------------------------
\* the defaults of the constructor
DefaultConfig ==
    [minRounds |-> 10, maxRounds |-> 15, minSources |-> 5,
     minConfidence |-> <<17, 20>>, minAgreement |-> <<4, 5>>,
     enableEarlyExit |-> TRUE]

\* new VerificationEngine() and new VerificationEngine({enableEarlyExit: false})
Configs == { DefaultConfig, [DefaultConfig EXCEPT !.enableEarlyExit = FALSE] }

\* elements of the array the round-9 oracle may answer with
AssessmentPool ==
    { [kind |-> "object", claimIndex |-> 1, confidence |-> JNum(<<9, 10>>)],
      [kind |-> "object", claimIndex |-> 2, confidence |-> JNum(<<3, 2>>)],
      [kind |-> "object", claimIndex |-> 1, confidence |-> JUndefined] }

AssessmentLists ==
    UNION { [1..n -> AssessmentPool] : n \in 0..MaxAssessments }

\* "unparseable" covers both a text without JSON and a JSON.parse failure:
\* the code does the same in both cases
Oracle9Responses ==
    { [kind |-> "reject", assessments |-> <<>>],
      [kind |-> "unparseable", assessments |-> <<>>] }
    \cup { [kind |-> "array", assessments |-> a] : a \in AssessmentLists }

Oracle10Responses ==
    { [kind |-> "reject", overallConfidence |-> JUndefined],
      [kind |-> "unparseable", overallConfidence |-> JUndefined] }
    \cup { [kind |-> "object", overallConfidence |-> j] :
             j \in { JNum(<<9, 10>>), JNum(<<3, 2>>), JStr(<<9, 10>>) } }

\* ------------------------------------------------------------------------
\* verify() as steps between awaits.  A frame holds the locals of one call;
\* hist is the array this.verificationHistory refers to at that moment.
\* ------------------------------------------------------------------------
IdleFrame ==
    [pc |-> "idle", block |-> 0, currentRound |-> 0, shouldContinue |-> TRUE,
     allConflicts |-> <<>>, conflictObjs |-> <<>>, claimVerifications |-> <<>>,
     pending |-> <<>>, response9 |-> <<>>, response10 |-> <<>>, ret |-> <<>>]

\* variant: with early exit enabled, the blocks after minRounds are skipped
BlockGuardEarlyExit(b, f, config) ==
    IF b <= 4 THEN f.currentRound <= 4 /\ f.shouldContinue
    ELSE /\ f.currentRound <= config.maxRounds
         /\ (b = 10 \/ f.shouldContinue)
         /\ (b = 8 => Len(f.allConflicts) > 0)
         /\ ~(config.enableEarlyExit /\ f.currentRound > config.minRounds)

\* the condition guarding block b (the while loop for 1-4, the ifs for 5-10)
BlockGuard(b, f, config) ==
    IF b <= 4 THEN f.currentRound <= 4 /\ f.shouldContinue
    ELSE /\ f.currentRound <= config.maxRounds
         /\ (b = 10 \/ f.shouldContinue)
         /\ (b = 8 => Len(f.allConflicts) > 0)

\* variant: round 8 runs whether or not conflicts were collected
NextBlockAlwaysResolve(after, f, config) ==
    IF after < 4 /\ BlockGuard(after + 1, f, config) THEN after + 1
    ELSE LET later == { b \in 5..10 :
                          /\ b > after
                          /\ \/ BlockGuard(b, f, config)
                             \/ b = 8 /\ f.currentRound <= config.maxRounds }
         IN  IF later = {} THEN 11 ELSE CHOOSE b \in later : \A x \in later : b <= x

\* the next block to run after block `after`; 11 when none is left
NextBlock(after, f, config) ==
    IF after < 4 /\ BlockGuard(after + 1, f, config) THEN after + 1
    ELSE LET later == { b \in 5..10 : b > after /\ BlockGuard(b, f, config) }
         IN  IF later = {} THEN 11 ELSE CHOOSE b \in later : \A x \in later : b <= x

\* a detection round (5, 6 or 7): the new Conflict objects are created and
\* the round result is awaited
RunDetection(b, objs, bonus, f, hist, context) ==
    [f EXCEPT !.conflictObjs = @ \o objs,
              !.pending = <<DetectionResult(b, context, hist, Len(f.conflictObjs) + 1,
                                            Len(objs), bonus)>>,
              !.pc = "await", !.block = b]

\* the synchronous part of block b, up to its first await
RunBlock(b, f, hist, context, apiKey) ==
    CASE b <= 4 ->
           LET r == executeRound(f.currentRound, context, f.claimVerifications)
           IN  [f EXCEPT !.claimVerifications = r.cv, !.pending = <<r.result>>,
                         !.pc = "await", !.block = b]
      [] b = 5 -> RunDetection(5, TemporalConflicts(context), <<1, 50>>, f, hist, context)
      [] b = 6 -> RunDetection(6, StatisticalConflicts(context), <<1, 50>>, f, hist, context)
      [] b = 7 -> RunDetection(7, ScopeConflicts(context), <<1, 100>>, f, hist, context)
      [] b = 8 ->
           LET r == executeConflictResolution(f.allConflicts, context, f.conflictObjs, hist)
           IN  [f EXCEPT !.conflictObjs = r.objs, !.pending = <<r.result>>,
                         !.pc = "await", !.block = 8]
      [] b = 9 ->
           IF apiKey THEN [f EXCEPT !.pc = "oracle9", !.block = 9]
           ELSE LET r == executeExpertVerificationNoKey(context, f.claimVerifications, hist)
                IN  [f EXCEPT !.claimVerifications = r.cv, !.pending = <<r.result>>,
                              !.pc = "await", !.block = 9]
      [] OTHER ->
           IF apiKey THEN [f EXCEPT !.pc = "oracle10", !.block = 10]
           ELSE [f EXCEPT !.pending =
                              <<executeFinalConsensusNoKey(context, f.claimVerifications)>>,
                          !.pc = "await", !.block = 10]

\* variant: totalRounds is read off the history
FinishHistoryLength(f, hist, context, config, resultsRef) ==
    LET shouldExit == /\ config.enableEarlyExit
                      /\ f.currentRound >= config.minRounds
                      /\ checkEarlyExitConditions(hist, config)
        verifiedClaims == buildVerifiedClaims(context, f.claimVerifications, hist)
    IN  [f EXCEPT !.shouldContinue = IF shouldExit THEN FALSE ELSE @,
                  !.pc = "done",
                  !.ret = <<[verifiedClaims |-> verifiedClaims,
                             conflicts |-> f.allConflicts,
                             results |-> resultsRef,
                             finalConfidence |-> calculateFinalConfidence(verifiedClaims),
                             totalRounds |-> Len(hist)]>>]

\* the end of verify(): early-exit check, final assembly, return.
\* resultsRef identifies the array returned as `results`.
Finish(f, hist, context, config, resultsRef) ==
    LET shouldExit == /\ config.enableEarlyExit
                      /\ f.currentRound >= config.minRounds
                      /\ checkEarlyExitConditions(hist, config)
        verifiedClaims == buildVerifiedClaims(context, f.claimVerifications, hist)
    IN  [f EXCEPT !.shouldContinue = IF shouldExit THEN FALSE ELSE @,
                  !.pc = "done",
                  !.ret = <<[verifiedClaims |-> verifiedClaims,
                             conflicts |-> f.allConflicts,
                             results |-> resultsRef,
                             finalConfidence |-> calculateFinalConfidence(verifiedClaims),
                             totalRounds |-> f.currentRound - 1]>>]

Advance(f, hist, context, config, apiKey, resultsRef) ==
    LET b == NextBlock(f.block, f, config)
    IN  IF b <= 10 THEN RunBlock(b, f, hist, context, apiKey)
        ELSE Finish(f, hist, context, config, resultsRef)

\* variant: context.round is taken as the round to resume at
StartStepResume(context, config, apiKey) ==
    LET f0 == [IdleFrame EXCEPT
                 !.currentRound = IF context.round > 0 THEN context.round ELSE 1,
                 !.claimVerifications =
                     [i \in 1..Len(context.claims) |->
                        [supportingSources |-> <<>>, contradictingSources |-> <<>>,
                         roundResults |-> <<>>]]]
    IN  [frame |-> Advance(f0, <<>>, context, config, apiKey, 0), hist |-> <<>>]

\* verify() from its call to its first await: the history is replaced by
\* a new empty array and round 1 is executed
StartStep(context, config, apiKey) ==
    LET f0 == [IdleFrame EXCEPT
                 !.currentRound = 1,
                 !.claimVerifications =
                     [i \in 1..Len(context.claims) |->
                        [supportingSources |-> <<>>, contradictingSources |-> <<>>,
                         roundResults |-> <<>>]]]
    IN  [frame |-> Advance(f0, <<>>, context, config, apiKey, 0), hist |-> <<>>]

\* verify() resumed after `await this.execute...`: the result is pushed,
\* the conflicts of rounds 5-7 are collected, the round is logged (toFixed
\* throws on a round-10 confidence that is not a number) and the next block
\* runs up to its await, or verify() returns
ResumeStep(f, hist, context, config, apiKey, resultsRef) ==
    LET result == f.pending[1]
        pushed == Append(hist, result)
        f1 == [f EXCEPT !.allConflicts =
                            IF f.block \in 5..7 THEN @ \o result.conflicts ELSE @,
                        !.pending = <<>>]
    IN  IF f.block = 10 /\ ~HasToFixed(result.averageConfidence)
        THEN [frame |-> [f1 EXCEPT !.pc = "rejected"], hist |-> pushed]
        ELSE [frame |-> Advance([f1 EXCEPT !.currentRound = @ + 1], pushed,
                                context, config, apiKey, resultsRef),
              hist |-> pushed]

\* the round-9 oracle request settles
Settle9Step(response, f, hist, context) ==
    LET r == executeExpertVerificationSettled(response, context, f.claimVerifications, hist)
    IN  [f EXCEPT !.claimVerifications = r.cv, !.pending = <<r.result>>,
                  !.pc = "await", !.response9 = <<response>>]

\* the round-10 oracle request settles
Settle10Step(response, f, context) ==
    [f EXCEPT !.pending =
                  <<executeFinalConsensusSettled(response, context, f.claimVerifications)>>,
              !.pc = "await", !.response10 = <<response>>]

\* A whole verify() call running alone on an engine, with the given oracle
\* answers: the steps above applied in order to a private history.
RECURSIVE RunAlone(_, _, _, _, _, _)
RunAlone(f, hist, context, config, apiKey, answers) ==
    CASE f.pc = "await" ->
           LET r == ResumeStep(f, hist, context, config, apiKey, 0)
           IN  RunAlone(r.frame, r.hist, context, config, apiKey, answers)
      [] f.pc = "oracle9" ->
           RunAlone(Settle9Step(answers.r9, f, hist, context), hist, context, config,
                    apiKey, answers)
      [] f.pc = "oracle10" ->
           RunAlone(Settle10Step(answers.r10, f, context), hist, context, config,
                    apiKey, answers)
      [] OTHER -> [frame |-> f, hist |-> hist]

VerifyAlone(context, config, apiKey, answers) ==
    LET s == StartStep(context, config, apiKey)
    IN  RunAlone(s.frame, s.hist, context, config, apiKey, answers)

\* ------------------------------------------------------------------------
\* State
\* ------------------------------------------------------------------------
VARIABLES
    engineOf,             \* call -> the engine instance verify() is called on
    config,               \* engine -> this.config
    apiKey,               \* process.env.ANTHROPIC_API_KEY is set
    oracle,               \* the answers the oracle may give: [r9, r10]
    context,              \* call -> the VerificationContext passed in
    verificationHistory,  \* engine -> the array this.verificationHistory refers to
    arrays,               \* the result arrays created so far
    frame,                \* call -> the locals of its verify() activation
    ready,                \* calls whose continuation is queued, in FIFO order
    statistics,           \* engine -> what its last getStatistics() returned
    resolver,             \* the last call made on the ConflictResolver
    session               \* call -> the status of its research session in the
                          \* orchestrator ("none" when verify() is called directly)

vars == <<engineOf, config, apiKey, oracle, context, verificationHistory,
          arrays, frame, ready, statistics, resolver, session>>

Calls == DOMAIN engineOf

Engines == DOMAIN config

\* contexts with the given values of context.round
ContextsWithRound(claimLists, sourceLists, rounds) ==
    { [claims |-> cl, sources |-> sl, round |-> r] :
      cl \in claimLists, sl \in sourceLists, r \in rounds }

\* contexts as the tests build them, with round: 0
Contexts(claimLists, sourceLists) == ContextsWithRound(claimLists, sourceLists, {0})

\* the context of call c; the session id names the call
ContextOf(c) ==
    [sessionId |-> c, claims |-> context[c].claims, sources |-> context[c].sources,
     round |-> context[c].round]

\* the resolver before its first call; afterwards the record holds the
\* method called, its argument and what it returned or threw
IdleResolver == [op |-> "none", arg |-> <<>>, out |-> <<>>]

\* the state after the engines are constructed: each has its own empty array
InitWith(engineMap, configs, contexts, answers) ==
    /\ engineOf = engineMap
    /\ config \in [{engineMap[c] : c \in DOMAIN engineMap} -> configs]
    /\ apiKey \in BOOLEAN
    /\ oracle = answers
    /\ context \in [DOMAIN engineMap -> contexts]
    /\ verificationHistory = [e \in {engineMap[c] : c \in DOMAIN engineMap} |-> e]
    /\ arrays = [e \in {engineMap[c] : c \in DOMAIN engineMap} |-> <<>>]
    /\ frame = [c \in DOMAIN engineMap |-> IdleFrame]
    /\ ready = <<>>
    /\ statistics = [e \in {engineMap[c] : c \in DOMAIN engineMap} |-> <<>>]
    /\ resolver = IdleResolver
    /\ session = [c \in DOMAIN engineMap |-> "none"]

\* one verify() call on one engine
Init ==
    InitWith([c \in {1} |-> 1], Configs, Contexts(ClaimLists, SourceLists),
             [r9 |-> Oracle9Responses, r10 |-> Oracle10Responses])

\* Every configuration: one verify() call on an engine constructed with any
\* combination of the options, on a few contexts and oracle answers.
MinRoundsChoices == {3, 9, 10}

MaxRoundsChoices == {3, 6, 9, 15}

ConfigSpace ==
    { [minRounds |-> r, maxRounds |-> m, minSources |-> n, minConfidence |-> q,
       minAgreement |-> <<4, 5>>, enableEarlyExit |-> b] :
      r \in MinRoundsChoices, m \in MaxRoundsChoices, n \in {0, 5},
      q \in {<<3, 10>>, <<17, 20>>}, b \in BOOLEAN }

\* no claim, one claim without conflict, two claims in conflict
FewClaimLists ==
    { <<>>,
      <<MkClaim(1, <<"Solar", "power", "grows">>)>>,
      <<MkClaim(1, <<"in", "2024", "average", "100">>),
        MkClaim(2, <<"Total", "solar", "power", "2023">>)>> }

FewAnswers ==
    [r9 |-> { [kind |-> "reject", assessments |-> <<>>],
              [kind |-> "array",
               assessments |-> <<[kind |-> "object", claimIndex |-> 1,
                                  confidence |-> JNum(<<9, 10>>)]>>] },
     r10 |-> { [kind |-> "unparseable", overallConfidence |-> JUndefined],
               [kind |-> "object", overallConfidence |-> JNum(<<9, 10>>)] }]

InitConfig ==
    InitWith([c \in {1} |-> 1], ConfigSpace,
             Contexts(FewClaimLists, {<<>>, SourceCatalog}), FewAnswers)

\* two verify() calls on one engine
InitShared ==
    InitWith([c \in {1, 2} |-> 1], {DefaultConfig},
             Contexts(FewClaimLists \ {<<>>}, {SubSeq(SourceCatalog, 1, 2)}), FewAnswers)

\* two verify() calls on two engines
InitSeparate ==
    InitWith([c \in {1, 2} |-> c], {DefaultConfig},
             Contexts(FewClaimLists \ {<<>>}, {SubSeq(SourceCatalog, 1, 2)}), FewAnswers)

\* variant: one history for all the engines
HistoryFieldShared(c) == verificationHistory[1]

\* VerificationEngine.getStatistics() on the history `hist`; the Conflict
\* objects of a round result are those of the call that made it
getStatistics(hist, frames) ==
    [totalRounds |-> Len(hist),
     averageConfidence |->
         IF Len(hist) > 0
         THEN RDivInt(RSum([i \in 1..Len(hist) |-> hist[i].averageConfidence]),
                      Len(hist))
         ELSE Zero,
     totalConflicts |-> IntSum([i \in 1..Len(hist) |-> hist[i].conflictsFound]),
     resolvedConflicts |->
         IntSum([i \in 1..Len(hist) |->
                   Len(SelectSeq(hist[i].conflicts,
                                 LAMBDA k : frames[hist[i].by].conflictObjs[k].resolved))])]

\* two verify() calls on one engine, each with any value of context.round;
\* the oracle may also answer round 10 with a string
RoundChoices == {0, 7}

SequentialAnswers ==
    [r9 |-> FewAnswers.r9,
     r10 |-> FewAnswers.r10 \cup
             {[kind |-> "object", overallConfidence |-> JStr(<<9, 10>>)]}]

InitSequential ==
    InitWith([c \in {1, 2} |-> 1], {DefaultConfig},
             ContextsWithRound(FewClaimLists \ {<<>>}, {SubSeq(SourceCatalog, 1, 2)},
                               RoundChoices),
             SequentialAnswers)

\* this.verificationHistory, as call c reads it: a field of its engine
HistoryField(c) == verificationHistory[engineOf[c]]

InProgress(c) == frame[c].pc \in {"await", "oracle9", "oracle10"}

\* ------------------------------------------------------------------------
\* Actions
\* ------------------------------------------------------------------------
\* variant: the history array is emptied in place instead of being replaced
StartInPlace(c) ==
    /\ frame[c].pc = "idle"
    /\ LET r == StartStep(ContextOf(c), config[engineOf[c]], apiKey)
       IN  /\ arrays' = [arrays EXCEPT ![HistoryField(c)] = r.hist]
           /\ frame' = [frame EXCEPT ![c] = r.frame]
           /\ ready' = Append(ready, c)
    /\ UNCHANGED <<session, statistics, resolver, engineOf, config, apiKey, oracle, context,
                   verificationHistory>>

\* verify() is called: it runs up to its first await
Start(c) ==
    /\ frame[c].pc = "idle"
    /\ LET r == StartStep(ContextOf(c), config[engineOf[c]], apiKey)
       IN  /\ arrays' = Append(arrays, r.hist)
           /\ verificationHistory' =
                  [verificationHistory EXCEPT ![engineOf[c]] = Len(arrays) + 1]
           /\ frame' = [frame EXCEPT ![c] = r.frame]
           /\ ready' = Append(ready, c)
    /\ UNCHANGED <<session, statistics, resolver, engineOf, config, apiKey, oracle, context>>

\* the continuation at the head of the queue runs up to its next await
Resume(c) ==
    /\ ready # <<>> /\ Head(ready) = c
    /\ frame[c].pc = "await"
    /\ LET a == HistoryField(c)
           r == ResumeStep(frame[c], arrays[a], ContextOf(c), config[engineOf[c]],
                           apiKey, a)
       IN  /\ arrays' = [arrays EXCEPT ![a] = r.hist]
           /\ frame' = [frame EXCEPT ![c] = r.frame]
           /\ ready' = IF r.frame.pc = "await" THEN Append(Tail(ready), c)
                        ELSE Tail(ready)
           /\ context' =
                  IF r.frame.pc = "done"
                  THEN [context EXCEPT ![c].claims =
                           ClaimsAfterBuild(@, r.frame.ret[1].verifiedClaims)]
                  ELSE context
    /\ UNCHANGED <<session, statistics, resolver, engineOf, config, apiKey, oracle,
                   verificationHistory>>

\* the round-9 oracle request of call c settles (once the queue is empty)
OracleSettle9(c) ==
    /\ ready = <<>>
    /\ frame[c].pc = "oracle9"
    /\ \E response \in oracle.r9 :
          frame' = [frame EXCEPT ![c] =
                      Settle9Step(response, frame[c], arrays[HistoryField(c)],
                                  ContextOf(c))]
    /\ ready' = Append(ready, c)
    /\ UNCHANGED <<session, statistics, resolver, engineOf, config, apiKey, oracle, context,
                   verificationHistory, arrays>>

\* the round-10 oracle request of call c settles (once the queue is empty)
OracleSettle10(c) ==
    /\ ready = <<>>
    /\ frame[c].pc = "oracle10"
    /\ \E response \in oracle.r10 :
          frame' = [frame EXCEPT ![c] = Settle10Step(response, frame[c], ContextOf(c))]
    /\ ready' = Append(ready, c)
    /\ UNCHANGED <<session, statistics, resolver, engineOf, config, apiKey, oracle, context,
                   verificationHistory, arrays>>

StartCall == \E c \in Calls : Start(c)

ResumeCall == \E c \in Calls : Resume(c)

Oracle9Settles == \E c \in Calls : OracleSettle9(c)

Oracle10Settles == \E c \in Calls : OracleSettle10(c)

Next ==
    \/ StartCall
    \/ ResumeCall
    \/ Oracle9Settles
    \/ Oracle10Settles

Spec == Init /\ [][Next]_vars

SpecConfig == InitConfig /\ [][Next]_vars

SpecSeparate == InitSeparate /\ [][Next]_vars

\* the second call is made by another task before the first has returned:
\* the first is then suspended on a request to the oracle, no continuation
\* being queued
StartOverlapping ==
    \E c \in Calls :
        /\ ready = <<>>
        /\ \A d \in Calls \ {c} : frame[d].pc \in {"idle", "oracle9", "oracle10"}
        /\ Start(c)

NextOverlap ==
    \/ StartOverlapping
    \/ ResumeCall
    \/ Oracle9Settles
    \/ Oracle10Settles

SpecOverlap == InitShared /\ [][NextOverlap]_vars

\* a call is made once the calls made before it have completed
StartSequential ==
    \E c \in Calls :
        /\ \A d \in Calls \ {c} : frame[d].pc \in {"idle", "done", "rejected"}
        /\ Start(c)

NextSequential ==
    \/ StartSequential
    \/ ResumeCall
    \/ Oracle9Settles
    \/ Oracle10Settles

SpecSequential == InitSequential /\ [][NextSequential]_vars

\* getStatistics() is called on an engine between its verify() calls
GetEngineStatistics ==
    \E e \in Engines :
        /\ \A c \in Calls : engineOf[c] = e => ~InProgress(c)
        /\ statistics' =
               [statistics EXCEPT
                  ![e] = getStatistics(arrays[verificationHistory[e]], frame)]
        /\ UNCHANGED <<session, resolver, engineOf, config, apiKey, oracle, context,
                       verificationHistory, arrays, frame, ready>>

\* two calls, one after the other, on an engine that runs all rounds or
\* stops after round 6
InitStatistics ==
    InitWith([c \in {1, 2} |-> 1],
             {DefaultConfig, [DefaultConfig EXCEPT !.maxRounds = 6]},
             ContextsWithRound(FewClaimLists \ {<<>>}, {SubSeq(SourceCatalog, 1, 2)}, {0}),
             FewAnswers)

NextStatistics ==
    \/ StartSequential
    \/ ResumeCall
    \/ Oracle9Settles
    \/ Oracle10Settles
    \/ GetEngineStatistics

SpecStatistics == InitStatistics /\ [][NextStatistics]_vars

\* ------------------------------------------------------------------------
\* ResearchOrchestrator (src/src/core/ResearchOrchestrator.ts): the module
\* keeps one orchestrator (getResearchOrchestrator), whose constructor makes
\* one VerificationEngine; every research session verifies on that engine.
\* ------------------------------------------------------------------------
\* Two research sessions on the shared orchestrator.  The context
\* executeResearch builds from the search results has one claim and one
\* source per result, and round: 1; a failed search gives no results.
InitOrchestrator ==
    InitWith([c \in {1, 2} |-> 1], {DefaultConfig},
             { [claims |-> cl, sources |-> SubSeq(SourceCatalog, 1, Len(cl)), round |-> 1] :
               cl \in FewClaimLists },
             FewAnswers)

\* executeResearch is called: the session is created, its status becomes
\* 'searching' and the search request is awaited
ExecuteResearch ==
    \E c \in Calls :
        /\ session[c] = "none"
        /\ session' = [session EXCEPT ![c] = "searching"]
        /\ UNCHANGED <<statistics, resolver, engineOf, config, apiKey, oracle, context,
                       verificationHistory, arrays, frame, ready>>

\* the search request settles (once the queue is empty): the status becomes
\* 'verifying' and this.verificationEngine.verify(...) is called
SearchSettles ==
    \E c \in Calls :
        /\ session[c] = "searching"
        /\ ready = <<>>
        /\ frame[c].pc = "idle"
        /\ session' = [session EXCEPT ![c] = "verifying"]
        /\ LET r == StartStep(ContextOf(c), config[engineOf[c]], apiKey)
           IN  /\ arrays' = Append(arrays, r.hist)
               /\ verificationHistory' =
                      [verificationHistory EXCEPT ![engineOf[c]] = Len(arrays) + 1]
               /\ frame' = [frame EXCEPT ![c] = r.frame]
               /\ ready' = Append(ready, c)
        /\ UNCHANGED <<statistics, resolver, engineOf, config, apiKey, oracle, context>>

\* `await this.verificationEngine.verify(...)` has returned or thrown (the
\* catch block takes unverified claims): the status becomes 'generating'
VerificationSettles ==
    \E c \in Calls :
        /\ session[c] = "verifying"
        /\ frame[c].pc \in {"done", "rejected"}
        /\ session' = [session EXCEPT ![c] = "generating"]
        /\ UNCHANGED <<statistics, resolver, engineOf, config, apiKey, oracle, context,
                       verificationHistory, arrays, frame, ready>>

NextOrchestrator ==
    \/ ExecuteResearch
    \/ SearchSettles
    \/ VerificationSettles
    \/ ResumeCall
    \/ Oracle9Settles
    \/ Oracle10Settles

SpecOrchestrator == InitOrchestrator /\ [][NextOrchestrator]_vars

\* ------------------------------------------------------------------------
\* Calls on the ConflictResolver and on the engine's round-8 resolution
\* ------------------------------------------------------------------------
ResolverTexts ==
    { <<"sales", "2023", "and", "2024">>,
      <<"sales", "2024">>,
      <<"sales", "2023">>,
      <<"only", "2024">>,
      <<"Total", "2023">>,
      <<"median", "2023">>,
      <<"model", "speed">>,
      <<"score", "speed">>,
      <<"sales", "grew">> }

ResolverClaimLists ==
    UNION { { [i \in 1..n |-> MkClaim(i, f[i])] : f \in [1..n -> ResolverTexts] }
            : n \in 0..MaxClaims }

\* sources with credibility 0.8, 0.6, 0.5, 0.3 and 0.9
ResolverSources ==
    LET scores == << <<4, 5>>, <<3, 5>>, <<1, 2>>, <<3, 10>>, <<9, 10>> >>
    IN  [i \in 1..5 |->
           [id |-> i, title |-> <<"Test", "Source">>, credibilityScore |-> scores[i]]]

ResolverContext ==
    [sessionId |-> 0,
     claims |-> << MkClaim(1, <<"sales", "2024">>), MkClaim(2, <<"sales", "2023">>) >>,
     sources |-> ResolverSources, round |-> 0]

\* conflicts of each type and of a type the code does not know, with no,
\* one or two claims and with no, one or two sources
ConflictPool ==
    { [type |-> t, claims |-> cl, sources |-> sl, resolved |-> FALSE,
       resolution |-> "undefined", confidence |-> <<4, 5>>] :
      t \in ConflictTypes \cup {"UNKNOWN_TYPE"},
      cl \in { <<>>, <<1>>, <<1, 2>> },
      sl \in { <<>>, <<1>>, <<1, 2>>, <<3, 4>>, <<5, 3>>, <<2, 3>> } }

\* the conflicts the result lists of getStatistics are made of
StatConflicts ==
    { ConflictObject(ResolverContext, k) :
      k \in { p \in ConflictPool : p.claims = <<1, 2>> /\ p.sources = <<1, 2>> } }

StatConflictLists == UNION { [1..n -> StatConflicts] : n \in 0..MaxResults }

engineVars ==
    <<engineOf, config, apiKey, oracle, context, verificationHistory, arrays,
      frame, ready, statistics, session>>

InitResolver ==
    /\ engineOf = <<>>
    /\ config = <<>>
    /\ apiKey = FALSE
    /\ oracle = FewAnswers
    /\ context = <<>>
    /\ verificationHistory = <<>>
    /\ arrays = <<>>
    /\ frame = <<>>
    /\ ready = <<>>
    /\ statistics = <<>>
    /\ resolver = IdleResolver
    /\ session = <<>>

\* The resolver keeps no state between calls: each behaviour makes one call.
DetectConflictType ==
    /\ resolver = IdleResolver
    /\ \E claims \in ResolverClaimLists :
        /\ resolver' = [op |-> "detectConflictType", arg |-> claims,
                        out |-> Return(detectConflictType(claims))]
        /\ UNCHANGED engineVars

Resolve ==
    /\ resolver = IdleResolver
    /\ \E k \in ConflictPool :
        LET conflict == ConflictObject(ResolverContext, k)
        IN  /\ resolver' = [op |-> "resolve", arg |-> conflict, out |-> resolve(conflict)]
            /\ UNCHANGED engineVars

ResolveMultiple ==
    /\ resolver = IdleResolver
    /\ \E conflicts \in StatConflictLists :
        /\ resolver' = [op |-> "resolveMultiple", arg |-> conflicts,
                        out |-> resolveMultiple(conflicts)]
        /\ UNCHANGED engineVars

\* getStatistics on the results of a resolveMultiple call
GetStatistics ==
    /\ resolver = IdleResolver
    /\ \E conflicts \in StatConflictLists :
        LET results == resolveMultiple(conflicts).value
        IN  /\ resolver' = [op |-> "getStatistics", arg |-> results,
                            out |-> Return(ConflictResolver_getStatistics(results))]
            /\ UNCHANGED engineVars

\* the engine's round 8 on one conflict; out.value is the conflict after
\* the loop
ExecuteConflictResolution ==
    /\ resolver = IdleResolver
    /\ \E k \in ConflictPool :
        /\ resolver' = [op |-> "executeConflictResolution", arg |-> k,
                        out |-> Return(executeConflictResolution(
                                          <<1>>, ResolverContext, <<k>>, <<>>).objs[1])]
        /\ UNCHANGED engineVars

\* lists of claims whose texts have no year, one year or two years
TemporalClaimLists ==
    LET texts == { <<"sales", "2023", "and", "2024">>,
                   <<"sales", "2024", "after", "2023">>,
                   <<"sales", "2023">>,
                   <<"only", "2024">>,
                   <<"sales", "grew">> }
    IN  UNION { { [i \in 1..n |-> MkClaim(i, f[i])] : f \in [1..n -> texts] }
                : n \in 0..MaxTemporalClaims }

\* the engine's round 5 on a list of claims; out.value is the list of the
\* conflicts it records
ExecuteTemporalVerification ==
    /\ resolver = IdleResolver
    /\ \E claims \in TemporalClaimLists :
        /\ resolver' = [op |-> "executeTemporalVerification", arg |-> claims,
                        out |-> Return(TemporalConflicts(
                                          [ResolverContext EXCEPT !.claims = claims]))]
        /\ UNCHANGED engineVars

NextResolver ==
    \/ DetectConflictType
    \/ Resolve
    \/ ResolveMultiple
    \/ GetStatistics
    \/ ExecuteConflictResolution
    \/ ExecuteTemporalVerification

SpecResolver == InitResolver /\ [][NextResolver]_vars

\* ------------------------------------------------------------------------
\* Properties
\* ------------------------------------------------------------------------
\* what call c has returned
Returned(c) == frame[c].ret[1]

\* C1: with early exit disabled, at least two claims and at least five
\* sources, the returned results list has exactly 10 entries and there is one
\* verified claim per input claim.
C1_TenRounds ==
    \A c \in Calls :
        ( /\ frame[c].pc = "done"
          /\ ~config[engineOf[c]].enableEarlyExit
          /\ Len(context[c].claims) >= 2
          /\ Len(context[c].sources) >= 5 )
        => /\ Len(arrays[Returned(c).results]) = 10
           /\ Len(Returned(c).verifiedClaims) = Len(context[c].claims)

\* C2: for a single verify() call, under every configuration, the returned
\* results list has totalRounds entries and every verified claim carries
\* verificationRounds = totalRounds.
C2_RoundsAgree ==
    \A c \in Calls :
        frame[c].pc = "done"
        => /\ Len(arrays[Returned(c).results]) = Returned(c).totalRounds
           /\ \A i \in DOMAIN Returned(c).verifiedClaims :
                 Returned(c).verifiedClaims[i].verificationRounds = Returned(c).totalRounds

\* a call has returned after fewer than ten rounds, with verified claims
C2_Witness ==
    \E c \in Calls :
        /\ frame[c].pc = "done"
        /\ Returned(c).totalRounds < 10
        /\ Len(Returned(c).verifiedClaims) >= 1

\* C3: verify() never rejects, however the oracle requests of rounds 9 and
\* 10 end.
C3_NeverRejects == \A c \in Calls : frame[c].pc # "rejected"

\* C4: in round 9, when the oracle is not configured, the request fails or
\* the response is malformed, every claim's history receives exactly one new
\* entry, min(1, supportingRatio * 1.2 + 0.3).
C4_FallbackEntry ==
    \A c \in Calls :
        ( /\ frame[c].pc = "await"
          /\ frame[c].block = 9
          /\ \/ ~apiKey
             \/ frame[c].response9[1].kind \in {"reject", "unparseable"} )
        => \A i \in DOMAIN frame[c].claimVerifications :
              LET data == frame[c].claimVerifications[i]
                  supportingRatio ==
                      IF Len(context[c].sources) > 0
                      THEN Rat(Len(data.supportingSources), Len(context[c].sources))
                      ELSE Zero
              IN  /\ Len(data.roundResults) = 5
                  /\ data.roundResults[5] =
                        Min1(RAdd(RMul(supportingRatio, <<6, 5>>), <<3, 10>>))

\* the oracle answers call c has received (any answer where none was asked)
AnswersOf(c) ==
    [r9 |-> IF frame[c].response9 = <<>> THEN [kind |-> "reject", assessments |-> <<>>]
            ELSE frame[c].response9[1],
     r10 |-> IF frame[c].response10 = <<>>
             THEN [kind |-> "reject", overallConfidence |-> JUndefined]
             ELSE frame[c].response10[1]]

\* C5: when two verify() calls overlap on one engine, they return the same
\* array; the call whose round 1 opens that array finds in it results of
\* the other call too, so that the list is longer than its own totalRounds.
C5_SharedHistory ==
    \A a \in Calls : \A b \in Calls \ {a} :
        ( /\ engineOf[a] = engineOf[b]
          /\ frame[a].pc = "done"
          /\ frame[b].pc = "done" )
        => /\ Returned(a).results = Returned(b).results
           /\ arrays[Returned(a).results][1].by = a
              => /\ Len(arrays[Returned(a).results]) > Returned(a).totalRounds
                 /\ \E i \in DOMAIN arrays[Returned(a).results] :
                       arrays[Returned(a).results][i].by = b

\* a call has returned, while the other is still running, a list that holds
\* results of the other call and whose length is not its totalRounds
C5_Witness ==
    \E a \in Calls : \E b \in Calls \ {a} :
        /\ frame[a].pc = "done"
        /\ InProgress(b)
        /\ Len(arrays[Returned(a).results]) # Returned(a).totalRounds
        /\ \E i \in DOMAIN arrays[Returned(a).results] :
              arrays[Returned(a).results][i].by = b

\* C6: two overlapping verify() calls on separate engines do not affect each
\* other: each returns the totalRounds, results, conflicts and confidences it
\* returns when it runs alone with the same oracle answers.
C6_SeparateEngines ==
    \A c \in Calls :
        frame[c].pc = "done"
        => LET alone == VerifyAlone(ContextOf(c), config[engineOf[c]], apiKey, AnswersOf(c))
           IN  /\ alone.frame.pc = "done"
               /\ alone.frame.ret[1] = [Returned(c) EXCEPT !.results = 0]
               /\ alone.hist = arrays[Returned(c).results]
               /\ alone.frame.conflictObjs = frame[c].conflictObjs

\* a call has returned while the call on the other engine was in progress
C6_Witness ==
    \E a \in Calls : \E b \in Calls \ {a} :
        /\ engineOf[a] # engineOf[b]
        /\ frame[a].pc = "done"
        /\ InProgress(b)
        /\ arrays[HistoryField(b)] # <<>>

C8_EmptyInputs ==
    \A c \in Calls :
        (Len(context[c].claims) = 0 \/ Len(context[c].sources) = 0)
        => /\ frame[c].pc # "rejected"
           /\ frame[c].pc = "done"
              => /\ Returned(c).totalRounds = 10
                 /\ Len(Returned(c).verifiedClaims) = Len(context[c].claims)

C10_StatusThresholds ==
    \A c \in Calls :
        frame[c].pc = "done"
        => \A i \in DOMAIN Returned(c).verifiedClaims :
              LET v == Returned(c).verifiedClaims[i]
              IN  /\ v.verificationStatus = "verified" <=> RGeq(v.finalConfidence, <<4, 5>>)
                  /\ v.verificationStatus = "disputed"
                        <=> (RGeq(v.finalConfidence, <<1, 2>>) /\ RLt(v.finalConfidence, <<4, 5>>))
                  /\ v.verificationStatus = "false" <=> RLt(v.finalConfidence, <<1, 2>>)
                  /\ v.verificationStatus # "pending"
                  /\ frame[c].claimVerifications[i].roundResults = <<>>
                        => (v.finalConfidence = <<1, 2>> /\ v.verificationStatus = "disputed")

\* C11: with source credibilities in [0,1], whatever the oracle answers,
\* every averageConfidence of the returned round results, every entry of a
\* claim's confidence history, every verified claim's finalConfidence and
\* the pipeline's finalConfidence lie in [0,1].
C11_ConfidenceRange ==
    \A c \in Calls :
        frame[c].pc = "done"
        => LET InUnit(x) == RGeq(x, Zero) /\ RGeq(One, x)
               results == arrays[Returned(c).results]
           IN  /\ \A i \in DOMAIN results : InUnit(results[i].averageConfidence)
               /\ \A i \in DOMAIN frame[c].claimVerifications :
                     \A k \in DOMAIN frame[c].claimVerifications[i].roundResults :
                        InUnit(frame[c].claimVerifications[i].roundResults[k])
               /\ \A i \in DOMAIN Returned(c).verifiedClaims :
                     InUnit(Returned(c).verifiedClaims[i].finalConfidence)
               /\ InUnit(Returned(c).finalConfidence)

\* C12: the outcome of verify() depends only on the claims, the sources, the
\* configuration and the oracle answers: a call returns what the same call
\* returns on a new engine with context.round = 0, whatever its
\* context.round and whatever calls completed on its engine before it.
C12_InputsDetermineOutcome ==
    \A c \in Calls :
        frame[c].pc = "done"
        => LET alone == VerifyAlone([ContextOf(c) EXCEPT !.round = 0],
                                    config[engineOf[c]], apiKey, AnswersOf(c))
           IN  /\ alone.frame.pc = "done"
               /\ alone.frame.ret[1] = [Returned(c) EXCEPT !.results = 0]
               /\ alone.hist = arrays[Returned(c).results]
               /\ alone.frame.conflictObjs = frame[c].conflictObjs

\* a call with context.round > 0 has returned on an engine on which another
\* call had completed before it started
C12_Witness ==
    \E a \in Calls : \E b \in Calls \ {a} :
        /\ engineOf[a] = engineOf[b]
        /\ frame[a].pc = "done"
        /\ frame[b].pc \in {"done", "rejected"}
        /\ context[a].round > 0
        /\ HistoryField(a) = Returned(a).results
        /\ Len(arrays[Returned(a).results - 1]) >= 4

\* C13: on two or more claims of which one contains a scope keyword,
\* detectConflictType returns SCOPE_DIFFERENCE, whatever years, statistical
\* keywords or measurement keywords the claims contain.
C13_ScopeFirst ==
    (resolver.op = "detectConflictType" /\ Len(resolver.arg) >= 2
     /\ \E i \in DOMAIN resolver.arg :
           \E j \in DOMAIN resolver.arg[i].text :
              Lower(resolver.arg[i].text[j]) \in detectScopeKeywords)
    => resolver.out = Return("SCOPE_DIFFERENCE")

\* detectConflictType has been called on two claims with different years,
\* one of which also holds a scope keyword
C13_Witness ==
    /\ resolver.op = "detectConflictType"
    /\ Len(resolver.arg) = 2
    /\ resolver.arg[1].text = <<"only", "2024">>
    /\ resolver.arg[2].text = <<"median", "2023">>
    /\ resolver.out.value = "SCOPE_DIFFERENCE"

\* C14 as stated: on two or more claims without a scope keyword,
\* detectConflictType returns TEMPORAL_DIFFERENCE whenever at least two
\* distinct 20xx years appear across the claims' texts.
C14_AnyTwoYears ==
    (resolver.op = "detectConflictType" /\ Len(resolver.arg) >= 2
     /\ (\A i \in DOMAIN resolver.arg :
            \A j \in DOMAIN resolver.arg[i].text :
               Lower(resolver.arg[i].text[j]) \notin detectScopeKeywords)
     /\ Cardinality({ w \in YearWords :
                        \E m \in DOMAIN resolver.arg :
                           \E n \in DOMAIN resolver.arg[m].text :
                              resolver.arg[m].text[n] = w }) >= 2)
    => resolver.out = Return("TEMPORAL_DIFFERENCE")

\* C14: on two or more claims without a scope keyword, detectConflictType
\* returns TEMPORAL_DIFFERENCE exactly when at least two of the claims
\* contain a 20xx year and the first years of those claims are not all the
\* same; the years after the first one of a text are not looked at.
C14_FirstYearsDiffer ==
    (resolver.op = "detectConflictType" /\ Len(resolver.arg) >= 2
     /\ \A i \in DOMAIN resolver.arg :
           \A j \in DOMAIN resolver.arg[i].text :
              Lower(resolver.arg[i].text[j]) \notin detectScopeKeywords)
    => (resolver.out = Return("TEMPORAL_DIFFERENCE")
        <=> \E i \in DOMAIN resolver.arg : \E j \in DOMAIN resolver.arg :
               /\ YearMatches(resolver.arg[i].text) # <<>>
               /\ YearMatches(resolver.arg[j].text) # <<>>
               /\ YearMatches(resolver.arg[i].text)[1]
                     # YearMatches(resolver.arg[j].text)[1])

\* detectConflictType has been called on two claims that hold two distinct
\* years between them but the same first year, and has answered another
\* type than TEMPORAL_DIFFERENCE
C14_Witness ==
    /\ resolver.op = "detectConflictType"
    /\ Len(resolver.arg) = 2
    /\ resolver.arg[1].text = <<"sales", "2023", "and", "2024">>
    /\ resolver.arg[2].text = <<"median", "2023">>
    /\ resolver.out.value # "TEMPORAL_DIFFERENCE"

\* C15: resolve never throws: for each of the five known types and for an
\* unrecognised type, with any sources and any claims (empty lists
\* included), it returns a result; an unrecognised type yields
\* resolved = false with confidence 0.50.
C15_ResolveTotal ==
    resolver.op = "resolve"
    => /\ ~resolver.out.threw
       /\ resolver.arg.type \notin ConflictTypes
          => /\ resolver.out.value.resolved = FALSE
             /\ resolver.out.value.confidence = <<1, 2>>

\* C16: for a conflict with at least one claim, resolve returns
\* resolved = true with confidence 0.90, 0.85, 0.88 and 0.87 for the scope,
\* temporal, statistical and measurement types; for TRUE_CONTRADICTION it
\* returns resolved = true with confidence 0.70 exactly when the largest
\* source credibility minus the smallest is greater than 0.20, and with
\* confidence 0.65 otherwise (a spread of exactly 0.20 and no sources
\* included).
C16_ResolveTable ==
    (resolver.op = "resolve" /\ Len(resolver.arg.claims) >= 1
     /\ resolver.arg.type \in ConflictTypes)
    => LET scores == [k \in 1..Len(resolver.arg.sources) |->
                        resolver.arg.sources[k].credibilityScore]
           spreadAbove ==
               /\ scores # <<>>
               /\ RGt(RAdd(RMaxOf(scores), RMul(<<-1, 1>>, RMinOf(scores))), <<1, 5>>)
           expected ==
               CASE resolver.arg.type = "SCOPE_DIFFERENCE" -> <<9, 10>>
                 [] resolver.arg.type = "TEMPORAL_DIFFERENCE" -> <<17, 20>>
                 [] resolver.arg.type = "STATISTICAL_METHOD" -> <<22, 25>>
                 [] resolver.arg.type = "MEASUREMENT_UNIT" -> <<87, 100>>
                 [] resolver.arg.type = "TRUE_CONTRADICTION" ->
                      IF spreadAbove THEN <<7, 10>> ELSE <<13, 20>>
       IN  /\ ~resolver.out.threw
           /\ resolver.out.value.resolved = TRUE
           /\ resolver.out.value.confidence = expected

\* C17: the resolver's getStatistics(results) returns total = the number of
\* results, resolved = the number of results with resolved = true, and
\* per-type entries whose counts sum to total and whose resolved counts sum
\* to resolved; on the empty list total, resolved and averageConfidence are
\* 0 and byType is empty.
C17_ResolverStatistics ==
    resolver.op = "getStatistics"
    => LET results == resolver.arg
           stats == resolver.out.value
           types == <<"SCOPE_DIFFERENCE", "TEMPORAL_DIFFERENCE", "STATISTICAL_METHOD",
                      "MEASUREMENT_UNIT", "TRUE_CONTRADICTION", "UNKNOWN_TYPE">>
           Entry(t) == IF t \in DOMAIN stats.byType THEN stats.byType[t]
                       ELSE [count |-> 0, resolved |-> 0]
       IN  /\ stats.total = Len(results)
           /\ stats.resolved = Cardinality({ i \in DOMAIN results : results[i].resolved })
           /\ DOMAIN stats.byType \subseteq { types[k] : k \in DOMAIN types }
           /\ IntSum([k \in DOMAIN types |-> Entry(types[k]).count]) = stats.total
           /\ IntSum([k \in DOMAIN types |-> Entry(types[k]).resolved]) = stats.resolved
           /\ results = <<>>
              => /\ stats.total = 0
                 /\ stats.resolved = 0
                 /\ stats.averageConfidence = Zero
                 /\ DOMAIN stats.byType = {}

\* getStatistics has been called on MaxResults results of more than one
\* type, one of them unresolved
C17_Witness ==
    /\ resolver.op = "getStatistics"
    /\ Len(resolver.arg) = MaxResults
    /\ \E i \in DOMAIN resolver.arg : ~resolver.arg[i].resolved
    /\ Cardinality(DOMAIN resolver.out.value.byType) >= 2
    /\ resolver.out.value.resolved = MaxResults - 1

\* C18: getStatistics() called after a verify() call has returned reports
\* totalRounds = the number of round results of that call, totalConflicts =
\* the sum of conflictsFound over those results, and resolvedConflicts <=
\* totalConflicts.
C18_EngineStatistics ==
    [][\A c \in Calls :
          (/\ statistics'[engineOf[c]] # statistics[engineOf[c]]
           /\ frame[c].pc = "done"
           /\ Returned(c).results = verificationHistory[engineOf[c]])
          => LET results == arrays[Returned(c).results]
                 stats == statistics'[engineOf[c]]
             IN  /\ stats.totalRounds = Len(results)
                 /\ stats.totalConflicts =
                       IntSum([i \in 1..Len(results) |-> results[i].conflictsFound])
                 /\ stats.resolvedConflicts <= stats.totalConflicts]_vars

\* statistics have been taken after the second call on an engine returned,
\* and they count conflicts that round 8 resolved
C18_Witness ==
    \E e \in Engines :
        /\ statistics[e] # <<>>
        /\ verificationHistory[e] = Len(arrays)
        /\ Len(arrays) >= 3
        /\ statistics[e].totalRounds = Len(arrays[verificationHistory[e]])
        /\ statistics[e].resolvedConflicts > 0

\* C19 as stated: the results of a returned verify() call hold a round-8
\* result exactly when rounds 5-7 collected at least one conflict; when they
\* collected none, no result has round = 8 and the round-9 result directly
\* follows the round-7 result.
C19_Round8IffConflicts ==
    \A c \in Calls :
        frame[c].pc = "done"
        => LET results == arrays[Returned(c).results]
               collected == \E i \in DOMAIN results :
                               results[i].round \in 5..7 /\ results[i].conflictsFound > 0
           IN  /\ collected <=> \E i \in DOMAIN results : results[i].round = 8
               /\ ~collected
                  => \A i \in DOMAIN results :
                        results[i].round = 7
                        => i < Len(results) /\ results[i + 1].round = 9

\* C19: with config.maxRounds >= 8 (and no other call in progress on the
\* engine), the results of a returned verify() call hold a round-8 result
\* exactly when rounds 5-7 collected at least one conflict; when they
\* collected none, no result has round = 8 and the round-9 result directly
\* follows the round-7 result.
C19_Round8IffConflictsWithinMaxRounds ==
    \A c \in Calls :
        (frame[c].pc = "done" /\ config[engineOf[c]].maxRounds >= 8)
        => LET results == arrays[Returned(c).results]
               collected == \E i \in DOMAIN results :
                               results[i].round \in 5..7 /\ results[i].conflictsFound > 0
           IN  /\ collected <=> \E i \in DOMAIN results : results[i].round = 8
               /\ Cardinality({ i \in DOMAIN results : results[i].round = 8 }) <= 1
               /\ ~collected
                  => \E i \in DOMAIN results :
                        /\ results[i].round = 7
                        /\ i < Len(results)
                        /\ results[i + 1].round = 9

\* a call with maxRounds >= 8 has returned a round-8 result after collecting
\* a conflict
C19_Witness ==
    \E c \in Calls :
        /\ frame[c].pc = "done"
        /\ config[engineOf[c]].maxRounds = 9
        /\ Len(frame[c].allConflicts) > 0
        /\ \E i \in DOMAIN arrays[Returned(c).results] :
              /\ arrays[Returned(c).results][i].round = 8
              /\ arrays[Returned(c).results][i].conflictsFound > 0

\* C20: for every conflict type and every spread of the source
\* credibilities, the resolved flag that round 8 of the engine sets on a
\* conflict equals the resolved flag that ConflictResolver.resolve returns
\* for the same conflict.
C20_SameResolvedFlag ==
    resolver.op = "executeConflictResolution"
    => LET result == resolve(ConflictObject(ResolverContext, resolver.arg))
       IN  ~result.threw => resolver.out.value.resolved = result.value.resolved

C22_AtMostMaxRounds ==
    \A c \in Calls :
        frame[c].pc = "done"
        => Returned(c).totalRounds <= config[engineOf[c]].maxRounds

\* C23: the workflow layer never has two verify() calls in progress at the
\* same time on one engine, also when two research sessions are started
\* concurrently through the shared orchestrator.
C23_OneVerifyAtATime ==
    \A a \in Calls : \A b \in Calls \ {a} :
        (engineOf[a] = engineOf[b] /\ session[a] # "none" /\ session[b] # "none")
        => ~(InProgress(a) /\ InProgress(b))

\* C24: getStatistics() called after a verify() call has returned reports
\* totalConflicts = the number of conflicts in the list that call returned
\* and resolvedConflicts = the number of those conflicts with resolved = true.
C24_StatisticsCountConflicts ==
    [][\A c \in Calls :
          (/\ statistics'[engineOf[c]] # statistics[engineOf[c]]
           /\ frame[c].pc = "done"
           /\ Returned(c).results = verificationHistory[engineOf[c]])
          => LET conflicts == Returned(c).conflicts
                 stats == statistics'[engineOf[c]]
             IN  /\ stats.totalConflicts = Len(conflicts)
                 /\ stats.resolvedConflicts =
                       Cardinality({ k \in DOMAIN conflicts :
                                       frame[c].conflictObjs[conflicts[k]].resolved })]_vars

\* C25: a round result in the history is not changed by later rounds: the
\* conflicts listed in the results of rounds 5, 6 and 7 have resolved = false
\* and no resolution text, also after round 8 has run.
C25_DetectionResultsUnchanged ==
    \A c \in Calls :
        \A i \in DOMAIN arrays[HistoryField(c)] :
            LET result == arrays[HistoryField(c)][i]
            IN  result.round \in 5..7
                => \A k \in DOMAIN result.conflicts :
                      LET conflict == frame[result.by].conflictObjs[result.conflicts[k]]
                      IN  ~conflict.resolved /\ conflict.resolution = "undefined"

C27_IncreasingRounds ==
    \A c \in Calls :
        frame[c].pc # "idle"
        => LET results == IF frame[c].pc = "done" THEN arrays[Returned(c).results]
                          ELSE arrays[HistoryField(c)]
           IN  /\ Len(results) > 0 => results[1].round = 1
               /\ \A i \in DOMAIN results :
                     i > 1 => results[i].round > results[i - 1].round

\* C28: round 5 records exactly one TEMPORAL_DIFFERENCE conflict for each
\* pair of claims whose texts both contain a 20xx year and whose first such
\* years differ, none for any other pair, and each conflict carries the two
\* claims of its pair.
C28_TemporalPairs ==
    resolver.op = "executeTemporalVerification"
    => LET claims == resolver.arg
           conflicts == resolver.out.value
           Differ(i, j) ==
               /\ FirstYearMatch(claims[i].text) # <<>>
               /\ FirstYearMatch(claims[j].text) # <<>>
               /\ FirstYearMatch(claims[i].text) # FirstYearMatch(claims[j].text)
       IN  /\ \A i \in DOMAIN claims : \A j \in DOMAIN claims :
                 i < j => Cardinality({ k \in DOMAIN conflicts :
                                          conflicts[k].claims = <<i, j>> })
                          = IF Differ(i, j) THEN 1 ELSE 0
           /\ \A k \in DOMAIN conflicts :
                 /\ conflicts[k].type = "TEMPORAL_DIFFERENCE"
                 /\ Len(conflicts[k].claims) = 2
                 /\ conflicts[k].claims[1] < conflicts[k].claims[2]
                 /\ conflicts[k].claims[2] <= Len(claims)

\* three claims of which two pairs are in conflict and the third pair, with
\* the same first year but different later years, is not
C28_Witness ==
    /\ resolver.op = "executeTemporalVerification"
    /\ Len(resolver.arg) = 3
    /\ Len(resolver.out.value) = 2
    /\ resolver.arg[1].text = <<"sales", "2023", "and", "2024">>
    /\ resolver.arg[2].text = <<"sales", "2023">>

\* C29: the verified claims and the finalConfidence a call returns do not
\* depend on the round-10 oracle response: the same call with any other
\* round-10 response returns too, with the same verifiedClaims and the same
\* finalConfidence, and its round results differ at most in the
\* averageConfidence of the round-10 result.
C29_Round10ResponseIrrelevant ==
    \A c \in Calls :
        frame[c].pc = "done"
        => \A response \in oracle.r10 :
              LET other == VerifyAlone(ContextOf(c), config[engineOf[c]], apiKey,
                                       [AnswersOf(c) EXCEPT !.r10 = response])
                  results == arrays[Returned(c).results]
              IN  /\ other.frame.pc = "done"
                  /\ other.frame.ret[1].verifiedClaims = Returned(c).verifiedClaims
                  /\ other.frame.ret[1].finalConfidence = Returned(c).finalConfidence
                  /\ Len(other.hist) = Len(results)
                  /\ \A i \in DOMAIN results :
                        \/ other.hist[i] = results[i]
                        \/ /\ results[i].round = 10
                           /\ other.hist[i] =
                                 [results[i] EXCEPT !.averageConfidence =
                                                        other.hist[i].averageConfidence]

\* C30: the results list a completed verify() call has returned is not
\* modified by a verify() call made later on the same instance: its length,
\* its entries and the conflicts its entries list stay as they were returned.
C30_ReturnedListKept ==
    [][\A c \in Calls :
          frame[c].pc = "done"
          => /\ frame'[c] = frame[c]
             /\ arrays'[Returned(c).results] = arrays[Returned(c).results]]_vars

\* a call made after another call on the same engine had returned has
\* completed all its rounds, and the list returned first is still there
C30_Witness ==
    \E a \in Calls : \E b \in Calls \ {a} :
        /\ engineOf[a] = engineOf[b]
        /\ frame[a].pc = "done"
        /\ frame[b].pc = "done"
        /\ Returned(a).results < Returned(b).results
        /\ Len(arrays[Returned(a).results]) >= 9
        /\ Len(arrays[Returned(b).results]) >= 9
        /\ arrays[Returned(a).results][1].by = a
        /\ arrays[Returned(b).results][1].by = b

====
